---- MODULE Spec2Model ----
(***************************************************************************)
(* Model of the battery viewer's SerialReader (src/serial-reader.js): the  *)
(* connection lifecycle (connect, disconnect, write, the background read   *)
(* loop, the ordered cleanup) over a model of the Web Serial platform it   *)
(* drives, and the framer (processData).                                   *)
(*                                                                         *)
(* Every async function is a call with a program position.  The code       *)
(* between two awaits runs without interruption (one JavaScript task);     *)
(* a call suspended on a platform promise resumes in an action of its own, *)
(* so that other calls and platform events interleave exactly at awaits.   *)
(***************************************************************************)
EXTENDS Integers, Sequences, FiniteSets, TLC

\* Bounds of the model.
MaxCalls == 3      \* connect()/disconnect()/write() calls made in one run
SepLen == 2        \* length of the separator line (58 '=' in the code)
BufferCap == 2     \* framer buffer cap (10000 characters in the code)
MaxText == 6       \* length of the text a device sends to the framer
MaxLines == 4      \* lines of the record given to the parser
MaxVoltage == 500  \* largest voltage classified, in hundredths of a volt
DefaultMaxDataPoints == 2  \* the chart's default window (50 in the code)
MaxWindow == 3  \* largest window given to setMaxDataPoints

Null == 0
Calls == 1..MaxCalls
\* A connect call t acquires handle t, reader t and writer t at most once,
\* so handles, readers, pipes and writers are named by the call.
Ids == Calls

Chunks == {<<"a">>}
ErrorNames == {"NetworkError", "BufferOverrunError"}

\* The characters of the text a device sends, and the texts.
Alphabet == {"a", "b", " ", "="}
Texts == UNION {[1..n -> Alphabet] : n \in 0..MaxText}

VARIABLES
    this,            \* the SerialReader's fields
    status,          \* the last notification delivered to onStatusChangeCallback
    call,            \* the connect/disconnect/write calls and their positions
    returned,        \* what the call that finished last gave its caller
    loop,            \* the read loop started by each connect
    serialSupported, \* 'serial' in navigator
    hstate,          \* SerialPort state of each handle
    closeCalls,      \* number of port.close() invocations on each handle
    rlock,           \* the pipe holding the lock of port.readable
    wlock,           \* the writer holding the lock of port.writable
    rstate,          \* state of each decoder reader
    pipe,            \* state of each port.readable.pipeTo(...) promise
    wstate,          \* state of each writer
    dispatched,      \* the records given to onDataCallback, in order
    stream,          \* the text of the device: what has arrived, what is to come
    monitor          \* the BatteryMonitor: the record it is given, the data parsed

vars == <<this, status, call, returned, loop, serialSupported, hstate, closeCalls,
          rlock, wlock, rstate, pipe, wstate, dispatched, stream, monitor>>

(***************************************************************************)
(* The framer.                                                             *)
(***************************************************************************)
separator == [i \in 1..SepLen |-> "="]

IsWhitespace(c) == c \in {" ", "\n", "\r", "\t"}

RECURSIVE TrimStart(_)
TrimStart(s) ==
    IF s # <<>> /\ IsWhitespace(Head(s)) THEN TrimStart(Tail(s)) ELSE s

RECURSIVE TrimEnd(_)
TrimEnd(s) ==
    IF s # <<>> /\ IsWhitespace(s[Len(s)])
    THEN TrimEnd(SubSeq(s, 1, Len(s) - 1)) ELSE s

\* String.prototype.trim
trim(s) == TrimEnd(TrimStart(s))

StartsWith(s, p) == Len(s) >= Len(p) /\ SubSeq(s, 1, Len(p)) = p

\* String.prototype.split(separator): the parts between the non-overlapping
\* occurrences of the separator, scanned left to right.
RECURSIVE SplitFrom(_, _)
SplitFrom(s, acc) ==
    IF s = <<>> THEN <<acc>>
    ELSE IF StartsWith(s, separator)
         THEN <<acc>> \o SplitFrom(SubSeq(s, SepLen + 1, Len(s)), <<>>)
         ELSE SplitFrom(Tail(s), Append(acc, Head(s)))

split(s) == SplitFrom(s, <<>>)

KeepTailNever(last) == <<>>

KeepTailUncapped(last) == last

\* "Keep the last incomplete part in buffer", "Prevent buffer overflow".
KeepTail(last) == IF Len(last) > BufferCap THEN <<>> ELSE last

processDataCapFirst(buffer, chunk) ==
    LET parts == split(buffer \o chunk)
        n == Len(parts)
        readings == [i \in 1..(n - 1) |-> trim(parts[i])]
        last == parts[n]
    IN [records |-> IF Len(last) > BufferCap THEN <<>>
                    ELSE SelectSeq(readings, LAMBDA r : r # <<>>),
        buffer |-> KeepTail(last),
        discarded |-> Len(last) > BufferCap]

processDataCapOnAppend(buffer, chunk) ==
    LET parts == split(buffer \o chunk)
        n == Len(parts)
        readings == [i \in 1..(n - 1) |-> trim(parts[i])]
        last == parts[n]
    IN [records |-> SelectSeq(readings, LAMBDA r : r # <<>>),
        buffer |-> IF Len(buffer \o chunk) > BufferCap THEN <<>> ELSE last,
        discarded |-> Len(buffer \o chunk) > BufferCap]

\* processData(chunk): the records dispatched to onDataCallback, the buffer
\* left behind and whether the buffer was discarded for exceeding the cap.
processData(buffer, chunk) ==
    LET parts == split(buffer \o chunk)
        n == Len(parts)
        readings == [i \in 1..(n - 1) |-> trim(parts[i])]
        last == parts[n]
    IN [records |-> SelectSeq(readings, LAMBDA r : r # <<>>),
        buffer |-> KeepTail(last),
        discarded |-> Len(last) > BufferCap]

DispatchFirst(sent, records) == records \o sent

\* onDataCallback(reading) for each complete reading, first to last.
Dispatch(sent, records) == sent \o records

\* parse starts from a reading with nothing in it.
EmptyData ==
    [totalVoltage |-> 0, cellCount |-> 0, cells |-> <<>>,
     individualCells |-> <<>>, modules |-> <<>>]

\* The ChartManager after construction: no labels, no datasets, and the
\* chart given the manager's own label array (shared: one array, two names).
NewChartManager ==
    [maxDataPoints |-> DefaultMaxDataPoints,
     labels |-> <<>>,
     datasets |-> <<>>,
     chartLabels |-> <<>>,
     chartDatasets |-> <<>>,
     sharedLabels |-> TRUE]

\* The BatteryMonitor before a record is given to handleData: no reading
\* yet (lastReading is null: no element), nothing shown.  cellsGrid is the
\* list of cells the grid shows, chartOps records which operations of the
\* ChartManager have been called.
NoRecord ==
    [rawData |-> <<>>, parsed |-> FALSE, data |-> EmptyData,
     lastReading |-> <<>>, readingCount |-> 0, uiUpdates |-> 0,
     chartUpdates |-> 0, cellsGrid |-> <<>>,
     chartManager |-> NewChartManager, chartOps |-> {}]

\* No text: the stream of a device whose text is not followed.
NoStream ==
    [pending |-> <<>>, arrived |-> <<>>, chunks |-> 0, carried |-> FALSE,
     discarded |-> FALSE, lastRecords |-> 0, lastDiscarded |-> FALSE]

(***************************************************************************)
(* The SerialReader object.                                                *)
(***************************************************************************)
\* constructor()
NewSerialReader ==
    [port |-> Null, reader |-> Null, writer |-> Null, isConnected |-> FALSE,
     readableStreamClosed |-> Null, writableStreamClosed |-> Null,
     buffer |-> <<>>, keepReading |-> FALSE, isDisconnecting |-> FALSE]

NewCall ==
    [kind |-> "none", pc |-> "idle", ret |-> "none", arg |-> Null,
     res |-> "none", failed |-> FALSE, result |-> "none"]

\* A call that has finished leaves nothing behind but its slot.
DoneCall == [NewCall EXCEPT !.kind = "done", !.pc = "done"]

NoReturn == [call |-> Null, kind |-> "none", result |-> "none", failed |-> FALSE]

\* A read loop: its position, the reader of its pending read, how it ended
\* and whether the disconnecting flag was set when it ended.
NewLoop == [pc |-> "none", r |-> Null, outcome |-> "none", midDisconnect |-> FALSE]

\* The mutable state handed through the code of one task.
World ==
    [this |-> this, log |-> status, hs |-> hstate, cc |-> closeCalls,
     rl |-> rlock, wl |-> wlock, rs |-> rstate, pp |-> pipe, ws |-> wstate]

Commit(w) ==
    /\ this' = w.this
    /\ status' = w.log
    /\ hstate' = w.hs
    /\ closeCalls' = w.cc
    /\ rlock' = w.rl
    /\ wlock' = w.wl
    /\ rstate' = w.rs
    /\ pipe' = w.pp
    /\ wstate' = w.ws

\* updateStatus(status): sets isConnected and notifies the listener.
updateStatus(w, st, src, t) ==
    [w EXCEPT !.this.isConnected = (st = "connected"),
              !.log = [status |-> st, src |-> src, call |-> t]]

(***************************************************************************)
(* _cleanupConnection and _safeOperation.                                  *)
(***************************************************************************)
StepNames == <<"cancel reader", "close writer", "wait readable pipe",
               "wait writable pipe", "close port">>

CleanupPcs == {"cl_cancel", "cl_writer", "cl_pipe", "cl_wpipe", "cl_close"}

StepPc == <<"cl_cancel", "cl_writer", "cl_pipe", "cl_wpipe", "cl_close">>

\* The guard of each step of _cleanupConnection.
StepApplies(s, i) ==
    CASE i = 1 -> s.reader # Null
      [] i = 2 -> s.writer # Null
      [] i = 3 -> s.readableStreamClosed # Null
      [] i = 4 -> s.writableStreamClosed # Null
      [] i = 5 -> s.port # Null
      [] OTHER -> TRUE

\* The first step after step k whose guard holds (6: clear the references).
NextStep(s, k) ==
    CHOOSE j \in (k + 1)..6 :
        /\ StepApplies(s, j)
        /\ \A i \in (k + 1)..(j - 1) : ~StepApplies(s, i)

SafeOperationRethrows == FALSE

\* _safeOperation catches the failure of the operation it runs.
SafeOperationCatches == TRUE

\* Step 7 of _cleanupConnection.
ClearReferences(s) ==
    [s EXCEPT !.port = Null, !.reader = Null, !.writer = Null,
              !.readableStreamClosed = Null, !.writableStreamClosed = Null,
              !.isDisconnecting = FALSE, !.buffer = <<>>]

\* The catch block of disconnect().
ForceCleanup(s) ==
    [s EXCEPT !.port = Null, !.reader = Null, !.writer = Null,
              !.readableStreamClosed = Null, !.writableStreamClosed = Null,
              !.isDisconnecting = FALSE]

\* The call returns to its caller, or throws.
Finish(c, result) == [c EXCEPT !.pc = "done", !.result = result]

IsSupportedAlways == TRUE

\* isSupported(): 'serial' in navigator.
isSupported == serialSupported

\* navigator.serial.requestPort() is called: the call waits for the user.
RequestPort(w, c, t) ==
    [w |-> updateStatus(w, "connecting", "connect", t),
     c |-> [c EXCEPT !.pc = "request"]]

NeedsCleanupNever(s) == FALSE

\* "If port exists but not connected, clean up first".
NeedsCleanup(s) == s.port # Null /\ ~s.isConnected

AlreadyConnectedNever(s) == FALSE

\* "Double check if already connected".
AlreadyConnected(s) == s.port # Null /\ s.isConnected

AfterCleanupUnreported(w, c, t) ==
    CASE c.ret = "pre" ->
            IF AlreadyConnected(w.this)
            THEN [w |-> w, c |-> Finish(c, "returned")]
            ELSE RequestPort(w, c, t)
      [] c.ret = "fail" ->
            [w |-> updateStatus(w, "error", "connect", t),
             c |-> Finish(c, "threw")]
      [] OTHER ->
            [w |-> w, c |-> Finish(c, "returned")]

\* What the caller of _cleanupConnection does once it has returned.
AfterCleanup(w, c, t) ==
    CASE c.ret = "pre" ->
            IF AlreadyConnected(w.this)
            THEN [w |-> w, c |-> Finish(c, "returned")]
            ELSE RequestPort(w, c, t)
      [] c.ret = "fail" ->
            [w |-> updateStatus(w, "error", "connect", t),
             c |-> Finish(c, "threw")]
      [] OTHER ->
            [w |-> updateStatus(w, "disconnected", "disconnect", t),
             c |-> Finish(c, "returned")]

\* The platform's side of the call each step makes.
CallStep(w, c, j) ==
    CASE j = 1 ->
            LET r == w.this.reader IN
            [w |-> [w EXCEPT
                      !.rs[r] = IF @ = "active" THEN "cancelled" ELSE @,
                      !.pp[r] = IF w.rs[r] = "active" /\ @ = "piping"
                                THEN "ending" ELSE @],
             c |-> [c EXCEPT !.arg = r, !.res = "none"]]
      [] j = 2 ->
            LET x == w.this.writer IN
            [w |-> [w EXCEPT !.ws[x] = IF @ = "open" THEN "closing" ELSE @],
             c |-> [c EXCEPT !.arg = x,
                      !.res = IF w.ws[x] = "open" THEN "ok" ELSE "fail"]]
      [] j = 3 ->
            [w |-> w,
             c |-> [c EXCEPT !.arg = w.this.readableStreamClosed, !.res = "none"]]
      [] j = 4 ->
            [w |-> w,
             c |-> [c EXCEPT !.arg = w.this.writableStreamClosed, !.res = "none"]]
      [] OTHER ->
            LET h == w.this.port
                ok == w.hs[h] = "open" /\ w.rl[h] = Null /\ w.wl[h] = Null
            IN
            [w |-> [w EXCEPT !.cc[h] = @ + 1,
                             !.hs[h] = IF ok THEN "closed" ELSE @],
             c |-> [c EXCEPT !.arg = h, !.res = IF ok THEN "ok" ELSE "fail"]]

\* _cleanupConnection from the step after step k up to its next await, or to
\* its end and on into its caller.
RunCleanup(w, c, t, k) ==
    LET j == NextStep(w.this, k) IN
    IF j = 6
    THEN AfterCleanup([w EXCEPT !.this = ClearReferences(w.this)], c, t)
    ELSE LET m == CallStep(w, c, j) IN
         [w |-> m.w,
          c |-> [m.c EXCEPT !.pc = StepPc[j]]]

\* _cleanupConnection is entered: step 1 stops the reading.
EnterCleanup(w, c, t, ret) ==
    RunCleanup([w EXCEPT !.this.keepReading = FALSE],
               [c EXCEPT !.ret = ret], t, 0)

(***************************************************************************)
(* connect().                                                              *)
(***************************************************************************)
ConnectCatchNoCleanup(w, c, t) == AfterCleanup(w, [c EXCEPT !.ret = "fail"], t)

\* The catch block of connect(): cleanup, then 'error', then rethrow.
ConnectCatch(w, c, t) == EnterCleanup(w, c, t, "fail")

\* The code of connect() after port.open() has resolved: the decoder pipe,
\* the reader, the writer, 'connected' and the start of the read loop.
\* It yields the world, the call and whether the read loop was started.
SetupStreams(w, c, t) ==
    LET p == w.this.port IN
    IF p = Null \/ w.hs[p] # "open"
    THEN \* this.port or this.port.readable is null: TypeError
         ConnectCatch(w, c, t) @@ [started |-> FALSE]
    ELSE LET piped == w.rl[p] = Null
             w1 == [w EXCEPT
                      !.pp[t] = IF piped THEN "piping" ELSE "failed",
                      !.rl[p] = IF piped THEN t ELSE @,
                      !.rs[t] = "active",
                      !.this.readableStreamClosed = t,
                      !.this.reader = t]
         IN IF w.wl[p] # Null
            THEN \* port.writable is locked: getWriter() throws
                 ConnectCatch(w1, c, t) @@ [started |-> FALSE]
            ELSE LET w2 == [w1 EXCEPT !.wl[p] = t, !.ws[t] = "open",
                                      !.this.writer = t,
                                      !.this.keepReading = TRUE,
                                      !.this.isDisconnecting = FALSE]
                 IN [w |-> updateStatus(w2, "connected", "connect", t),
                     c |-> Finish(c, "returned"),
                     started |-> TRUE]

\* The outcome m of one task of call t is stored; a call that has finished
\* hands its result to its caller.
Step(t, m) ==
    /\ Commit(m.w)
    /\ IF m.c.pc = "done"
       THEN /\ call' = [call EXCEPT ![t] = DoneCall]
            /\ returned' = [call |-> t, kind |-> m.c.kind,
                            result |-> m.c.result, failed |-> m.c.failed]
       ELSE /\ call' = [call EXCEPT ![t] = m.c]
            /\ returned' = returned

NextCall(t) ==
    /\ call[t].kind = "none"
    /\ \A u \in Calls : u < t => call[u].kind # "none"

\* connect() is called: its code up to the first await.
ConnectCall(t) ==
    /\ NextCall(t)
    /\ LET c == [NewCall EXCEPT !.kind = "connect"]
           m == IF ~isSupported
                THEN [w |-> updateStatus(World, "error", "connect", t),
                      c |-> Finish(c, "threw")]
                ELSE IF this.isDisconnecting
                THEN [w |-> World, c |-> Finish(c, "returned")]
                ELSE IF NeedsCleanup(this)
                THEN EnterCleanup(World, c, t, "pre")
                ELSE IF AlreadyConnected(this)
                THEN [w |-> World, c |-> Finish(c, "returned")]
                ELSE RequestPort(World, c, t)
       IN Step(t, m)
    /\ UNCHANGED <<loop, serialSupported, dispatched, stream, monitor>>

\* requestPort() settles: the user picks a device or dismisses the picker.
RequestSettles(t, ok) ==
    /\ call[t].kind = "connect" /\ call[t].pc = "request"
    /\ LET m == IF ok
                THEN [w |-> [World EXCEPT !.this.port = t, !.hs[t] = "opening"],
                      c |-> [call[t] EXCEPT !.pc = "open"]]
                ELSE ConnectCatch(World, call[t], t)
       IN Step(t, m)
    /\ UNCHANGED <<loop, serialSupported, dispatched, stream, monitor>>

\* port.open() settles.
OpenSettles(t, ok) ==
    /\ call[t].kind = "connect" /\ call[t].pc = "open"
    /\ LET w1 == [World EXCEPT !.hs[t] = IF ok THEN "open" ELSE "acquired"]
           m == IF ok THEN SetupStreams(w1, call[t], t)
                ELSE ConnectCatch(w1, call[t], t) @@ [started |-> FALSE]
       IN /\ Step(t, m)
          /\ loop' = IF m.started
                     THEN [loop EXCEPT ![t] = [NewLoop EXCEPT
                                                 !.pc = "reading",
                                                 !.r = m.w.this.reader]]
                     ELSE loop
    /\ UNCHANGED <<serialSupported, dispatched, stream, monitor>>

(***************************************************************************)
(* disconnect().                                                           *)
(***************************************************************************)
DisconnectCall(t) ==
    /\ NextCall(t)
    /\ LET c == [NewCall EXCEPT !.kind = "disconnect"]
           m == IF this.isDisconnecting
                THEN [w |-> World, c |-> Finish(c, "returned")]
                ELSE IF this.port = Null
                THEN [w |-> updateStatus(World, "disconnected", "disconnect", t),
                      c |-> Finish(c, "returned")]
                ELSE EnterCleanup([World EXCEPT !.this.isDisconnecting = TRUE,
                                                !.this.keepReading = FALSE],
                                  c, t, "disc")
       IN Step(t, m)
    /\ UNCHANGED <<loop, serialSupported, dispatched, stream, monitor>>

(***************************************************************************)
(* The awaits of _cleanupConnection.                                       *)
(***************************************************************************)
Release(lock, x) == [h \in Ids |-> IF lock[h] = x THEN Null ELSE lock[h]]

StepOf(pc) == CHOOSE i \in 1..5 : StepPc[i] = pc

\* An operation of the cleanup rejects and _safeOperation lets it through:
\* the failure leaves _cleanupConnection and reaches its caller.
CleanupThrows(w, c, t) ==
    IF c.ret = "disc"
    THEN [w |-> updateStatus([w EXCEPT !.this = ForceCleanup(w.this)],
                             "disconnected", "disconnect", t),
          c |-> Finish(c, "returned")]
    ELSE [w |-> w, c |-> Finish(c, "threw")]

\* Whether the operation a cleanup step awaits fulfils: cancel() rejects on
\* an errored stream, writer.close() on a writer that is not open, the pipe
\* promise unless the device closed the stream, port.close() on a port that
\* is not open or has a locked stream.
StepFulfils(c, k) ==
    CASE k = 1 -> rstate[c.arg] \notin ErrorNames
      [] k = 2 -> c.res = "ok"
      [] k = 3 -> pipe[c.arg] = "settled" /\ rstate[c.arg] = "closed"
      [] k = 4 -> TRUE
      [] OTHER -> c.res = "ok"

\* The operation a cleanup step awaits settles (for the port, close() and
\* the settle delay after it).
CleanupSettles(t) ==
    /\ call[t].pc \in CleanupPcs
    /\ LET c == call[t]
           k == StepOf(c.pc)
           ok == StepFulfils(c, k)
       IN /\ (k = 3) => pipe[c.arg] \in {"settled", "failed"}
          /\ LET w1 == IF k = 2 /\ ok
                       THEN [World EXCEPT !.ws[c.arg] = "closed",
                                          !.wl = Release(@, c.arg)]
                       ELSE World
                 c1 == [c EXCEPT !.failed = @ \/ ~ok]
                 m == IF ~ok /\ ~SafeOperationCatches
                      THEN CleanupThrows(w1, c1, t)
                      ELSE RunCleanup(w1, c1, t, k)
             IN Step(t, m)
    /\ UNCHANGED <<loop, serialSupported, dispatched, stream, monitor>>

\* The decoder pipe of a cancelled reader shuts down: it cancels
\* port.readable, releases its lock and settles the pipeTo promise.
PipeSettles(r) ==
    /\ pipe[r] = "ending"
    /\ pipe' = [pipe EXCEPT ![r] = "settled"]
    /\ rlock' = Release(rlock, r)
    /\ UNCHANGED <<this, status, call, returned, loop, serialSupported,
                   hstate, closeCalls, wlock, rstate, wstate, dispatched, stream, monitor>>

(***************************************************************************)
(* readLoop().                                                             *)
(***************************************************************************)
ReadErrorSwallowedOnlyWhenIdle(s, name) ==
    (name = "NetworkError" \/ name = "AbortError") /\ ~s.isDisconnecting

\* The catch of readLoop: an error is logged and swallowed, or rethrown.
ReadErrorSwallowed(s, name) ==
    name = "NetworkError" \/ name = "AbortError" \/ s.isDisconnecting

\* The catch handler connect() attaches to readLoop().
ReadLoopCatchReports(s, name) ==
    ~s.isDisconnecting /\ name # "NetworkError" /\ name # "AbortError"

\* The while condition of readLoop.
KeepsReading(s) == s.port # Null /\ s.keepReading /\ ~s.isDisconnecting

EndLoop(l, outcome) ==
    [loop EXCEPT ![l].pc = "ended", ![l].outcome = outcome,
                 ![l].midDisconnect = this.isDisconnecting]

\* reader.read() rejects with an error of the given name.
ReadFails(w, l, name) ==
    IF ReadErrorSwallowed(w.this, name)
    THEN [w |-> w, outcome |-> "swallowed"]
    ELSE [w |-> IF ReadLoopCatchReports(w.this, name)
                THEN updateStatus(w, "error", "readLoop", l)
                ELSE w,
          outcome |-> "threw"]

Reading(l) == loop[l].pc = "reading"

Flowing(r) == rstate[r] = "active" /\ pipe[r] = "piping"

\* The stream of reader r ends on the device's side: closed, or errored with
\* the given error name; its pipe settles and releases port.readable.
StreamEnds(w, r, how) ==
    [w EXCEPT !.rs[r] = how, !.pp[r] = "settled", !.rl = Release(@, r)]

\* reader.read() resolves with a value: the chunk is framed and the loop
\* goes on to its next read, or stops.
ReadChunk(l, chunk) ==
    /\ Reading(l) /\ Flowing(loop[l].r)
    /\ dispatched' = Dispatch(dispatched, processData(this.buffer, chunk).records)
    /\ LET w1 == [World EXCEPT
                    !.this.buffer = processData(this.buffer, chunk).buffer]
       IN IF KeepsReading(w1.this)
          THEN IF w1.this.reader # Null
               THEN /\ Commit(w1)
                    /\ loop' = [loop EXCEPT ![l].r = w1.this.reader]
               ELSE \* this.reader.read() on null: TypeError
                    LET m == ReadFails(w1, l, "TypeError")
                    IN /\ Commit(m.w)
                       /\ loop' = EndLoop(l, m.outcome)
          ELSE /\ Commit(w1)
               /\ loop' = EndLoop(l, "stopped")
    /\ UNCHANGED <<call, returned, serialSupported, stream, monitor>>

ReadDoneReported(l) ==
    /\ Reading(l)
    /\ LET r == loop[l].r IN
       /\ rstate[r] \in {"cancelled", "closed"} \/ Flowing(r)
       /\ Commit(updateStatus(IF Flowing(r) THEN StreamEnds(World, r, "closed")
                                            ELSE World,
                              "error", "readLoop", l))
    /\ loop' = EndLoop(l, "threw")
    /\ UNCHANGED <<call, returned, serialSupported, dispatched, stream, monitor>>

\* reader.read() resolves with done: the reader was cancelled or the device
\* closed the stream.
ReadDone(l) ==
    /\ Reading(l)
    /\ LET r == loop[l].r IN
       /\ rstate[r] \in {"cancelled", "closed"} \/ Flowing(r)
       /\ Commit(IF Flowing(r) THEN StreamEnds(World, r, "closed") ELSE World)
    /\ loop' = EndLoop(l, "done")
    /\ UNCHANGED <<call, returned, serialSupported, dispatched, stream, monitor>>

\* reader.read() rejects.
ReadError(l, name) ==
    /\ Reading(l)
    /\ LET r == loop[l].r IN
       /\ rstate[r] = name \/ Flowing(r)
       /\ LET w1 == IF Flowing(r) THEN StreamEnds(World, r, name) ELSE World
              m == ReadFails(w1, l, name)
          IN /\ Commit(m.w)
             /\ loop' = EndLoop(l, m.outcome)
    /\ UNCHANGED <<call, returned, serialSupported, dispatched, stream, monitor>>

\* The stream of a reader nobody is reading from ends.
UnreadStreamEnds(r, how) ==
    /\ Flowing(r)
    /\ \A l \in Calls : ~(Reading(l) /\ loop[l].r = r)
    /\ Commit(StreamEnds(World, r, how))
    /\ UNCHANGED <<call, returned, loop, serialSupported, dispatched, stream, monitor>>

(***************************************************************************)
(* write().                                                                *)
(***************************************************************************)
WriteCall(t) ==
    /\ NextCall(t)
    /\ LET c == [NewCall EXCEPT !.kind = "write"] IN
       Step(t, [w |-> World,
                c |-> IF this.writer = Null \/ this.isDisconnecting
                      THEN Finish(c, "threw")
                      ELSE [c EXCEPT !.pc = "w_write", !.arg = this.writer]])
    /\ UNCHANGED <<loop, serialSupported, dispatched, stream, monitor>>

\* writer.write() settles: it fulfils on an open writer, or it rejects and
\* leaves the writable stream errored.
WriteSettles(t, ok) ==
    /\ call[t].pc = "w_write"
    /\ ok => wstate[call[t].arg] = "open"
    /\ LET x == call[t].arg
           w1 == IF ~ok /\ wstate[x] = "open"
                 THEN [World EXCEPT !.ws[x] = "errored", !.wl = Release(@, x)]
                 ELSE World
       IN Step(t, [w |-> w1,
                   c |-> Finish([call[t] EXCEPT !.failed = ~ok],
                                IF ~ok /\ ~this.isDisconnecting
                                THEN "threw" ELSE "returned")])
    /\ UNCHANGED <<loop, serialSupported, dispatched, stream, monitor>>

(***************************************************************************)
(* The specification.                                                      *)
(***************************************************************************)
Init ==
    /\ this = NewSerialReader
    /\ status = [status |-> "none", src |-> "none", call |-> Null]
    /\ call = [t \in Calls |-> NewCall]
    /\ returned = NoReturn
    /\ loop = [t \in Calls |-> NewLoop]
    /\ serialSupported \in BOOLEAN
    /\ hstate = [h \in Ids |-> "free"]
    /\ closeCalls = [h \in Ids |-> 0]
    /\ rlock = [h \in Ids |-> Null]
    /\ wlock = [h \in Ids |-> Null]
    /\ rstate = [r \in Ids |-> "none"]
    /\ pipe = [r \in Ids |-> "none"]
    /\ wstate = [x \in Ids |-> "none"]
    /\ dispatched = <<>>
    /\ stream = NoStream
    /\ monitor = NoRecord

Next ==
    \/ \E t \in Calls : ConnectCall(t)
    \/ \E t \in Calls, ok \in BOOLEAN : RequestSettles(t, ok)
    \/ \E t \in Calls, ok \in BOOLEAN : OpenSettles(t, ok)
    \/ \E t \in Calls : DisconnectCall(t)
    \/ \E t \in Calls : CleanupSettles(t)
    \/ \E r \in Ids : PipeSettles(r)
    \/ \E l \in Calls, chunk \in Chunks : ReadChunk(l, chunk)
    \/ \E l \in Calls : ReadDone(l)
    \/ \E l \in Calls, name \in ErrorNames : ReadError(l, name)
    \/ \E r \in Ids, how \in {"closed"} \cup ErrorNames : UnreadStreamEnds(r, how)
    \/ \E t \in Calls : WriteCall(t)
    \/ \E t \in Calls, ok \in BOOLEAN : WriteSettles(t, ok)

Spec == Init /\ [][Next]_vars

(***************************************************************************)
(* The framer on its own: a device's text arrives in chunks of any sizes   *)
(* and the read loop hands each chunk, in the order of arrival, to         *)
(* processData.                                                            *)
(***************************************************************************)
\* One iteration of readLoop on a chunk of n characters: processData frames
\* it, dispatches the complete readings and keeps the rest in the buffer.
Feed(n) ==
    /\ n <= Len(stream.pending)
    /\ LET chunk == SubSeq(stream.pending, 1, n)
           m == processData(this.buffer, chunk)
       IN /\ this' = [this EXCEPT !.buffer = m.buffer]
          /\ dispatched' = Dispatch(dispatched, m.records)
          /\ stream' = [pending |-> SubSeq(stream.pending, n + 1,
                                           Len(stream.pending)),
                        arrived |-> stream.arrived \o chunk,
                        chunks |-> stream.chunks + 1,
                        carried |-> stream.carried \/ this.buffer # <<>>,
                        discarded |-> stream.discarded \/ m.discarded,
                        lastRecords |-> Len(m.records),
                        lastDiscarded |-> m.discarded]
    /\ UNCHANGED <<status, call, returned, loop, serialSupported, hstate,
                   closeCalls, rlock, wlock, rstate, pipe, wstate, monitor>>

FramerInit ==
    /\ this = NewSerialReader
    /\ status = [status |-> "none", src |-> "none", call |-> Null]
    /\ call = [t \in Calls |-> NewCall]
    /\ returned = NoReturn
    /\ loop = [t \in Calls |-> NewLoop]
    /\ serialSupported = TRUE
    /\ hstate = [h \in Ids |-> "free"]
    /\ closeCalls = [h \in Ids |-> 0]
    /\ rlock = [h \in Ids |-> Null]
    /\ wlock = [h \in Ids |-> Null]
    /\ rstate = [r \in Ids |-> "none"]
    /\ pipe = [r \in Ids |-> "none"]
    /\ wstate = [x \in Ids |-> "none"]
    /\ dispatched = <<>>
    /\ \E text \in Texts : stream = [NoStream EXCEPT !.pending = text]
    /\ monitor = NoRecord

FramerNext == \E n \in 1..MaxText : Feed(n)

FramerSpec == FramerInit /\ [][FramerNext]_vars

(***************************************************************************)
(* The parser (src/battery-parser.js).  A record is a sequence of lines;   *)
(* a line is what the patterns of the parser see in it: the pattern it     *)
(* matches and the texts of the pattern's groups.  Voltages are in         *)
(* hundredths of a volt.                                                   *)
(***************************************************************************)
\* The texts matched by the groups (\d+) and ([-\d.]+).
NumberTexts == {"1", "2"}
VoltageTexts == {"0.05", "3.96", "7.92"}

TotalLines == [kind : {"total"}, count : {"2"}, voltage : {"7.92"}]
CellLines == [kind : {"cell"}, number : NumberTexts, voltage : VoltageTexts]
ModuleLines == [kind : {"module"}, id : NumberTexts, address : {"48"}]
PinLines ==
    [kind : {"pin"}, pin : {"0"}, cell : NumberTexts, raw : {"100"},
     voltage : VoltageTexts]
OtherLines == {[kind |-> "other"], [kind |-> "blank"]}

Lines == TotalLines \cup CellLines \cup ModuleLines \cup PinLines \cup OtherLines

Records == UNION {[1..n -> Lines] : n \in 0..MaxLines}

parseInt(text) ==
    CASE text = "0" -> 0
      [] text = "1" -> 1
      [] text = "2" -> 2
      [] text = "100" -> 100

\* The decimal text of a cell number (`${cellNumber}`).
toString(number) ==
    CASE number = 1 -> "1"
      [] number = 2 -> "2"

parseFloat(text) ==
    CASE text = "0.05" -> 5
      [] text = "3.96" -> 396
      [] text = "7.92" -> 792

\* line.match(this.patterns[pattern])
Matches(line, pattern) == line.kind = pattern

\* text.split('\n').map(line => line.trim()).filter(line => line)
SplitLines(text) == SelectSeq(text, LAMBDA line : line.kind # "blank")

getCellStatusSigned(voltage) ==
    IF voltage < 10 THEN "danger"
    ELSE IF voltage >= 300 /\ voltage <= 430 THEN "good"
    ELSE IF voltage > 430 \/ (voltage > 10 /\ voltage < 250)
    THEN "warning"
    ELSE "good"

\* getCellStatus(voltage), the thresholds in hundredths of a volt.
getCellStatus(voltage) ==
    LET absVoltage == IF voltage < 0 THEN -voltage ELSE voltage IN
    IF absVoltage < 10 THEN "danger"
    ELSE IF absVoltage >= 300 /\ absVoltage <= 430 THEN "good"
    ELSE IF absVoltage > 430 \/ (absVoltage > 10 /\ absVoltage < 250)
    THEN "warning"
    ELSE "good"

\* "Parse total voltage": the first match in the text.
ParseTotal(lines) ==
    LET found == SelectSeq(lines, LAMBDA line : Matches(line, "total")) IN
    IF found = <<>>
    THEN [cellCount |-> 0, totalVoltage |-> 0]
    ELSE [cellCount |-> parseInt(found[1].count),
          totalVoltage |-> parseFloat(found[1].voltage)]

CellName(text) == <<text, "S">>

PinName(text) == <<"A", text>>

\* "Parse individual cell voltages": one entry pushed per matching line.
RECURSIVE ParseIndividualCells(_)
ParseIndividualCells(lines) ==
    IF lines = <<>> THEN <<>>
    ELSE LET line == Head(lines)
             rest == ParseIndividualCells(Tail(lines))
         IN IF Matches(line, "cell")
            THEN <<[name |-> CellName(toString(parseInt(line.number))),
                    number |-> parseInt(line.number),
                    individualVoltage |-> parseFloat(line.voltage),
                    status |-> getCellStatus(parseFloat(line.voltage))]>>
                 \o rest
            ELSE rest

NoModule == [id |-> 0, address |-> "", pins |-> <<>>]

PinAcceptedAlways(line, acc) == Matches(line, "pin")

\* if (pinMatch && currentModule)
PinAccepted(line, acc) == Matches(line, "pin") /\ acc.open

\* "Parse modules and pin data": the loop over the lines, from the state
\* acc (the current module, the modules pushed and the cells pushed).
RECURSIVE ParseModules(_, _)
ParseModules(lines, acc) ==
    IF lines = <<>> THEN acc
    ELSE LET line == Head(lines) IN
         IF Matches(line, "module")
         THEN ParseModules(Tail(lines),
                  [acc EXCEPT
                     !.modules = IF acc.open THEN Append(@, acc.current) ELSE @,
                     !.open = TRUE,
                     !.current = [id |-> parseInt(line.id),
                                  address |-> line.address,
                                  pins |-> <<>>]])
         ELSE IF PinAccepted(line, acc)
         THEN LET pin == [pin |-> PinName(line.pin),
                          cell |-> CellName(line.cell),
                          cellNumber |-> parseInt(line.cell),
                          raw |-> parseInt(line.raw),
                          voltage |-> parseFloat(line.voltage)]
              IN ParseModules(Tail(lines),
                     [acc EXCEPT
                        !.current.pins = Append(@, pin),
                        !.cells = Append(@, [name |-> pin.cell,
                                             number |-> pin.cellNumber,
                                             voltage |-> pin.voltage,
                                             raw |-> pin.raw,
                                             module |-> acc.current.id,
                                             pin |-> pin.pin])])
         ELSE ParseModules(Tail(lines), acc)

\* Array.prototype.sort with (a, b) => a.number - b.number: a stable sort.
RECURSIVE InsertByNumber(_, _)
InsertByNumber(sorted, cell) ==
    IF sorted = <<>> \/ sorted[Len(sorted)].number <= cell.number
    THEN Append(sorted, cell)
    ELSE Append(InsertByNumber(SubSeq(sorted, 1, Len(sorted) - 1), cell),
                sorted[Len(sorted)])

RECURSIVE SortFrom(_, _)
SortFrom(cells, sorted) ==
    IF cells = <<>> THEN sorted
    ELSE SortFrom(Tail(cells), InsertByNumber(sorted, Head(cells)))

SortByNumberSkipped(cells) == cells

\* "Sort cells by cell number".
SortByNumber(cells) == SortFrom(cells, <<>>)

\* individualCells.find(ic => ic.number === number): the index of the first
\* such entry, 0 if there is none.
FindIndividualCell(individualCells, number) ==
    LET found == {i \in 1..Len(individualCells) :
                     individualCells[i].number = number}
    IN IF found = {} THEN 0
       ELSE CHOOSE i \in found : \A j \in found : i <= j

\* "Merge individual voltages into cells array".
MergeIndividualCells(cells, individualCells) ==
    [i \in 1..Len(cells) |->
        LET k == FindIndividualCell(individualCells, cells[i].number) IN
        IF k > 0
        THEN [individualVoltage |-> individualCells[k].individualVoltage,
              status |-> individualCells[k].status] @@ cells[i]
        ELSE [individualVoltage |-> 0, status |-> "danger"] @@ cells[i]]

\* calculateIndividualVoltages(cells): the differential fallback.
calculateIndividualVoltagesAsRead(cells) ==
    [i \in 1..Len(cells) |->
        [individualVoltage |-> cells[i].voltage,
         status |-> getCellStatus(cells[i].voltage)] @@ cells[i]]

calculateIndividualVoltages(cells) ==
    [i \in 1..Len(cells) |->
        LET v == IF i = 1 THEN cells[i].voltage
                 ELSE cells[i].voltage - cells[i - 1].voltage
        IN [individualVoltage |-> v, status |-> getCellStatus(v)] @@ cells[i]]

HasIndividualCellsNever(individualCells) == FALSE

\* data.individualCells.length > 0
HasIndividualCells(individualCells) == Len(individualCells) > 0

\* parse(text)
parse(text) ==
    LET lines == SplitLines(text)
        total == ParseTotal(lines)
        individualCells == ParseIndividualCells(lines)
        scan == ParseModules(lines, [open |-> FALSE, current |-> NoModule,
                                     modules |-> <<>>, cells |-> <<>>])
        cells == SortByNumber(scan.cells)
    IN [totalVoltage |-> total.totalVoltage,
        cellCount |-> total.cellCount,
        cells |-> IF HasIndividualCells(individualCells)
                  THEN MergeIndividualCells(cells, individualCells)
                  ELSE calculateIndividualVoltages(cells),
        individualCells |-> individualCells,
        modules |-> IF scan.open THEN Append(scan.modules, scan.current)
                    ELSE scan.modules]

\* validate(data)
validate(data) ==
    /\ data.totalVoltage \in Int
    /\ DOMAIN data.cells = 1..Len(data.cells)
    /\ DOMAIN data.modules = 1..Len(data.modules)

(***************************************************************************)
(* What the BatteryMonitor shows of a reading, and the ChartManager's      *)
(* pushes it uses.                                                         *)
(***************************************************************************)
Timestamps == {"t1", "t2"}

CellNames == {CellName("1"), CellName("2")}

ChartVoltages == {396, 410}

\* The objects updateChart passes: for each cell shown, its voltage, in the
\* order of the cells.
CellsData ==
    { <<>> } \cup
    { <<[name |-> n, voltage |-> v]>> : n \in CellNames, v \in ChartVoltages } \cup
    { <<[name |-> CellName("1"), voltage |-> v1],
        [name |-> CellName("2"), voltage |-> v2]>> :
          v1 \in ChartVoltages, v2 \in ChartVoltages }

Includes(seq, x) == \E i \in 1..Len(seq) : seq[i] = x

\* push, then one shift if the array is longer than the window.
PushShift(seq, x, max) ==
    IF Len(seq) + 1 > max THEN Tail(Append(seq, x)) ELSE Append(seq, x)

\* this.datasets.get(cellName): the index of the dataset, 0 for undefined.
DatasetIndex(datasets, cellName) ==
    IF \E i \in 1..Len(datasets) : datasets[i].label = cellName
    THEN CHOOSE i \in 1..Len(datasets) : datasets[i].label = cellName
    ELSE 0

\* Get or create the dataset of a cell, push the voltage, trim.  A new
\* dataset is set in the Map and pushed to the chart; the chart's datasets
\* are the Map's objects.
PushPoint(c, cellName, voltage) ==
    LET i == DatasetIndex(c.datasets, cellName)
        created == IF i = 0
                   THEN Append(c.datasets, [label |-> cellName, data |-> <<>>])
                   ELSE c.datasets
        k == IF i = 0 THEN Len(created) ELSE i
        pushed == [created EXCEPT
                     ![k].data = PushShift(@, voltage, c.maxDataPoints)]
        shown == [j \in 1..Len(c.chartDatasets) |->
                    pushed[DatasetIndex(pushed, c.chartDatasets[j].label)]]
    IN [c EXCEPT !.datasets = pushed,
                 !.chartDatasets = IF i = 0 THEN Append(shown, pushed[k])
                                   ELSE shown]

\* this.labels.push(timestamp) and the trim; the chart sees it while the
\* array is shared.
PushLabel(c, timestamp) ==
    LET labels == PushShift(c.labels, timestamp, c.maxDataPoints)
    IN [c EXCEPT !.labels = labels,
                 !.chartLabels = IF c.sharedLabels THEN labels ELSE @]

RECURSIVE PushPoints(_, _)
PushPoints(c, cellsData) ==
    IF cellsData = <<>> THEN c
    ELSE PushPoints(PushPoint(c, Head(cellsData).name, Head(cellsData).voltage),
                    Tail(cellsData))

PassesFilterNonNegative(cell) == cell.individualVoltage >= 0

\* cell.individualVoltage > 0.1, in hundredths of a volt.
PassesFilter(cell) == cell.individualVoltage > 10

\* updateCellsGrid(cells): the valid cells, the ones the grid shows.
updateCellsGrid(cells) == SelectSeq(cells, PassesFilter)

\* cellsData[cell.name] = cell.individualVoltage: a key already in the object
\* keeps its place and takes the new value.
SetKey(cellsData, name, voltage) ==
    IF \E i \in 1..Len(cellsData) : cellsData[i].name = name
    THEN [i \in 1..Len(cellsData) |->
            IF cellsData[i].name = name
            THEN [name |-> name, voltage |-> voltage] ELSE cellsData[i]]
    ELSE Append(cellsData, [name |-> name, voltage |-> voltage])

RECURSIVE CellsDataFrom(_, _)
CellsDataFrom(cells, cellsData) ==
    IF cells = <<>> THEN cellsData
    ELSE CellsDataFrom(Tail(cells),
                       IF PassesFilter(Head(cells))
                       THEN SetKey(cellsData, Head(cells).name,
                                   Head(cells).individualVoltage)
                       ELSE cellsData)

\* updateChart(data): the cellsData object given to updateCells.
updateChart(cells) == CellsDataFrom(cells, <<>>)

\* handleData(rawData): the record is parsed and validated; a valid reading
\* becomes lastReading, is counted and is shown in the UI and the chart.
handleData ==
    /\ ~monitor.parsed
    /\ LET data == parse(monitor.rawData) IN
       monitor' = IF ~validate(data)
                  THEN [monitor EXCEPT !.parsed = TRUE, !.data = data]
                  ELSE [monitor EXCEPT !.parsed = TRUE, !.data = data,
                                       !.lastReading = <<data>>,
                                       !.readingCount = @ + 1,
                                       !.uiUpdates = @ + 1,
                                       !.cellsGrid = updateCellsGrid(data.cells),
                                       !.chartUpdates = @ + 1,
                                       !.chartManager =
                                          PushPoints(PushLabel(@, "t1"),
                                                     updateChart(data.cells)),
                                       !.chartOps = @ \cup {"updateCells"}]
    /\ UNCHANGED <<this, status, call, returned, loop, serialSupported, hstate,
                   closeCalls, rlock, wlock, rstate, pipe, wstate, dispatched,
                   stream>>

ParserInit ==
    /\ this = NewSerialReader
    /\ status = [status |-> "none", src |-> "none", call |-> Null]
    /\ call = [t \in Calls |-> NewCall]
    /\ returned = NoReturn
    /\ loop = [t \in Calls |-> NewLoop]
    /\ serialSupported = TRUE
    /\ hstate = [h \in Ids |-> "free"]
    /\ closeCalls = [h \in Ids |-> 0]
    /\ rlock = [h \in Ids |-> Null]
    /\ wlock = [h \in Ids |-> Null]
    /\ rstate = [r \in Ids |-> "none"]
    /\ pipe = [r \in Ids |-> "none"]
    /\ wstate = [x \in Ids |-> "none"]
    /\ dispatched = <<>>
    /\ stream = NoStream
    /\ \E text \in Records : monitor = [NoRecord EXCEPT !.rawData = text]

ParserNext == handleData

ParserSpec == ParserInit /\ [][ParserNext]_vars

(***************************************************************************)
(* The classification on its own: a cell of any cumulative voltage is      *)
(* given to calculateIndividualVoltages, which classifies it.              *)
(***************************************************************************)
Voltages == (0 - MaxVoltage)..MaxVoltage

\* A cell as parse pushes it for a pin line, with the given voltage.
CellOf(voltage) ==
    [name |-> CellName("1"), number |-> 1, voltage |-> voltage, raw |-> 100,
     module |-> 1, pin |-> PinName("0")]

\* this.calculateIndividualVoltages(data.cells)
Classify ==
    /\ ~monitor.parsed
    /\ monitor' = [monitor EXCEPT
                     !.parsed = TRUE,
                     !.data.cells = calculateIndividualVoltages(@)]
    /\ UNCHANGED <<this, status, call, returned, loop, serialSupported, hstate,
                   closeCalls, rlock, wlock, rstate, pipe, wstate, dispatched,
                   stream>>

ClassifyInit ==
    /\ this = NewSerialReader
    /\ status = [status |-> "none", src |-> "none", call |-> Null]
    /\ call = [t \in Calls |-> NewCall]
    /\ returned = NoReturn
    /\ loop = [t \in Calls |-> NewLoop]
    /\ serialSupported = TRUE
    /\ hstate = [h \in Ids |-> "free"]
    /\ closeCalls = [h \in Ids |-> 0]
    /\ rlock = [h \in Ids |-> Null]
    /\ wlock = [h \in Ids |-> Null]
    /\ rstate = [r \in Ids |-> "none"]
    /\ pipe = [r \in Ids |-> "none"]
    /\ wstate = [x \in Ids |-> "none"]
    /\ dispatched = <<>>
    /\ stream = NoStream
    /\ \E v \in Voltages :
          monitor = [NoRecord EXCEPT !.data.cells = <<CellOf(v)>>]

ClassifyNext == Classify

ClassifySpec == ClassifyInit /\ [][ClassifyNext]_vars

(***************************************************************************)
(* The ChartManager.  labels is this.labels, datasets the Map of datasets  *)
(* in insertion order (a dataset is its label and its data); chartLabels   *)
(* and chartDatasets are chart.data.labels and chart.data.datasets.  The   *)
(* dataset objects are shared by the Map and the chart; the label array is *)
(* shared until clear() gives each its own new array.                      *)
(***************************************************************************)
\* addDataPoint(cellName, voltage, timestamp).
addDataPoint(cellName, voltage, timestamp) ==
    /\ monitor' = [monitor EXCEPT
                     !.chartManager =
                        PushPoint(IF Includes(@.labels, timestamp)
                                  THEN @ ELSE PushLabel(@, timestamp),
                                  cellName, voltage),
                     !.chartOps = @ \cup {"addDataPoint"}]
    /\ UNCHANGED <<this, status, call, returned, loop, serialSupported, hstate,
                   closeCalls, rlock, wlock, rstate, pipe, wstate, dispatched,
                   stream>>

\* updateCells(cellsData, timestamp).
updateCells(cellsData, timestamp) ==
    /\ monitor' = [monitor EXCEPT
                     !.chartManager =
                        PushPoints(PushLabel(@, timestamp), cellsData),
                     !.chartOps = @ \cup {"updateCells"}]
    /\ UNCHANGED <<this, status, call, returned, loop, serialSupported, hstate,
                   closeCalls, rlock, wlock, rstate, pipe, wstate, dispatched,
                   stream>>

\* clear(): this.labels and chart.data.labels each get a new empty array.
clear ==
    /\ monitor' = [monitor EXCEPT
                     !.chartManager =
                        [@ EXCEPT !.labels = <<>>, !.datasets = <<>>,
                                  !.chartLabels = <<>>, !.chartDatasets = <<>>,
                                  !.sharedLabels = FALSE],
                     !.chartOps = @ \cup {"clear"}]
    /\ UNCHANGED <<this, status, call, returned, loop, serialSupported, hstate,
                   closeCalls, rlock, wlock, rstate, pipe, wstate, dispatched,
                   stream>>

\* setMaxDataPoints(max).
setMaxDataPoints(max) ==
    /\ monitor' = [monitor EXCEPT
                     !.chartManager.maxDataPoints = max,
                     !.chartOps = @ \cup {"setMaxDataPoints"}]
    /\ UNCHANGED <<this, status, call, returned, loop, serialSupported, hstate,
                   closeCalls, rlock, wlock, rstate, pipe, wstate, dispatched,
                   stream>>

ChartInit ==
    /\ this = NewSerialReader
    /\ status = [status |-> "none", src |-> "none", call |-> Null]
    /\ call = [t \in Calls |-> NewCall]
    /\ returned = NoReturn
    /\ loop = [t \in Calls |-> NewLoop]
    /\ serialSupported = TRUE
    /\ hstate = [h \in Ids |-> "free"]
    /\ closeCalls = [h \in Ids |-> 0]
    /\ rlock = [h \in Ids |-> Null]
    /\ wlock = [h \in Ids |-> Null]
    /\ rstate = [r \in Ids |-> "none"]
    /\ pipe = [r \in Ids |-> "none"]
    /\ wstate = [x \in Ids |-> "none"]
    /\ dispatched = <<>>
    /\ stream = NoStream
    /\ monitor = NoRecord

ChartNext ==
    \/ \E cellsData \in CellsData, timestamp \in Timestamps :
          updateCells(cellsData, timestamp)
    \/ \E cellName \in CellNames, voltage \in ChartVoltages,
          timestamp \in Timestamps :
          addDataPoint(cellName, voltage, timestamp)
    \/ clear
    \/ \E max \in 1..MaxWindow : setMaxDataPoints(max)

ChartSpec == ChartInit /\ [][ChartNext]_vars

(***************************************************************************)
(* Vocabulary of the properties.                                           *)
(***************************************************************************)
\* The readers and writers that are bound to a handle: those holding the
\* lock of its readable (through the decoder pipe) or of its writable.
BoundReaders == {r \in Ids : \E h \in Ids : rlock[h] = r}

BoundWriters == {x \in Ids : \E h \in Ids : wlock[h] = x}

Holds == this.port # Null \/ this.reader # Null \/ this.writer # Null

InFlight(u, kind) == call[u].kind = kind

\* Call t is made in this step, as a call of the given kind.
Started(t, kind) ==
    /\ call[t].kind = "none"
    /\ \/ call'[t].kind = kind
       \/ call'[t].kind = "done" /\ returned'.call = t /\ returned'.kind = kind

\* Call t of the given kind finishes in this step.
Finished(t, kind) ==
    /\ call[t].kind \in {kind, "none"}
    /\ call'[t].kind = "done"
    /\ returned'.call = t /\ returned'.kind = kind

Quiescent == \A t \in Calls : call[t].kind \in {"none", "done"}

PlatformUnchanged ==
    UNCHANGED <<hstate, closeCalls, rlock, wlock, rstate, pipe, wstate>>

(***************************************************************************)
(* C1: under every interleaving of connect(), disconnect(), write() and    *)
(* read-loop events, at most one reader and at most one writer are bound   *)
(* to a device handle at any time.                                         *)
(***************************************************************************)
C1_AtMostOneReaderAndWriter ==
    Cardinality(BoundReaders) <= 1 /\ Cardinality(BoundWriters) <= 1

(***************************************************************************)
(* C2: no device handle is leaked: every handle that was opened is still   *)
(* referenced by the SerialReader (this.port) or has been closed; in       *)
(* particular no handle is open while this.port is null.                   *)
(***************************************************************************)
C2_NoHandleLeaked ==
    \A h \in Ids : hstate[h] = "open" => this.port = h

(***************************************************************************)
(* C3: the handle is never double-released: close() is invoked at most     *)
(* once on every acquired handle.                                          *)
(***************************************************************************)
C3_CloseInvokedAtMostOnce ==
    \A h \in Ids : closeCalls[h] <= 1

(***************************************************************************)
(* C4: a connect() issued while an earlier connect() is still in flight is *)
(* rejected or a no-op: it requests no handle, opens nothing, runs no      *)
(* cleanup and leaves the SerialReader and the platform as they are.       *)
(***************************************************************************)
C4_ConcurrentConnectIsNoOp ==
    [][\A t \in Calls :
         (Started(t, "connect") /\ \E u \in Calls : InFlight(u, "connect"))
         => /\ call'[t].kind = "done"
            /\ UNCHANGED <<this, status>>
            /\ PlatformUnchanged]_vars

(***************************************************************************)
(* C5: a disconnect() called while a first disconnect() is still in flight *)
(* is a no-op: it starts no second teardown and emits no notification, so  *)
(* one teardown runs and one 'disconnected' is notified.                   *)
(***************************************************************************)
C5_SecondDisconnectIsNoOp ==
    [][\A t \in Calls :
         (Started(t, "disconnect") /\ \E u \in Calls : InFlight(u, "disconnect"))
         => /\ call'[t].kind = "done"
            /\ UNCHANGED <<this, status>>
            /\ PlatformUnchanged]_vars

(***************************************************************************)
(* C6: teardown always completes: whichever cleanup steps fail, the steps  *)
(* that remain are still attempted in order, and when disconnect() returns *)
(* from its teardown the handle, reader and writer references are null,    *)
(* the buffer is empty, the disconnecting flag is false and 'disconnected' *)
(* has been notified with isConnected false.                               *)
(***************************************************************************)
Disconnected(t) ==
    [status |-> "disconnected", src |-> "disconnect", call |-> t]

C6_TeardownCompletes ==
    [][\A t \in Calls :
         (call[t].kind = "disconnect" /\ call[t].pc \in CleanupPcs
            /\ call'[t] # call[t])
         => LET k == StepOf(call[t].pc) IN
            IF call'[t].kind = "done"
            THEN /\ \A j \in (k + 1)..5 : ~StepApplies(this, j)
                 /\ returned'.call = t /\ returned'.result = "returned"
                 /\ ~Holds'
                 /\ this'.buffer = <<>>
                 /\ ~this'.isDisconnecting
                 /\ ~this'.isConnected
                 /\ status' = Disconnected(t)
            ELSE /\ call'[t].pc \in CleanupPcs
                 /\ StepOf(call'[t].pc) > k
                 /\ StepApplies(this, StepOf(call'[t].pc))
                 /\ \A j \in (k + 1)..(StepOf(call'[t].pc) - 1) :
                        ~StepApplies(this, j)]_vars

\* A disconnect() has returned from a teardown in which a step failed.
C6_Witness ==
    /\ returned.kind = "disconnect" /\ returned.failed
    /\ returned.result = "returned"
    /\ status = Disconnected(returned.call)
    /\ this = NewSerialReader
    /\ \E h \in Ids : hstate[h] = "closed"

(***************************************************************************)
(* C7 as stated: whenever the lifecycle is in the error state it has been  *)
(* cleaned up: the system never rests in error while still holding the     *)
(* handle, reader or writer of the failed session.                         *)
(***************************************************************************)
C7_ErrorRestsHoldingNothing ==
    (status.status = "error" /\ Quiescent) => ~Holds

(***************************************************************************)
(* C7 as amended: the error state entered by a failed connect holds no     *)
(* handle, reader or writer; the error state entered by a read failure     *)
(* keeps the handle, reader and writer of the failed session, and the next *)
(* connect() or disconnect() made in that state starts their cleanup,      *)
(* which ends with all three references null.                              *)
(***************************************************************************)
C7_ErrorCleanedUpByNextCall ==
    [][/\ (status' # status /\ status'.status = "error") =>
            IF status'.src = "connect"
            THEN ~Holds'
            ELSE /\ this'.port = this.port
                 /\ this'.reader = this.reader
                 /\ this'.writer = this.writer
       /\ \A t \in Calls :
            /\ ( /\ Started(t, "connect") \/ Started(t, "disconnect")
                 /\ status.status = "error"
                 /\ this.port # Null /\ ~this.isDisconnecting )
               => call'[t].pc \in CleanupPcs
            /\ (call[t].pc \in CleanupPcs /\ call'[t].pc \notin CleanupPcs)
               => ~Holds']_vars

\* The system rests in the error state of a read failure, still holding the
\* handle, the reader and the writer of the failed session.
C7_Witness ==
    /\ status.status = "error" /\ status.src = "readLoop"
    /\ Quiescent
    /\ this.port # Null /\ this.reader # Null /\ this.writer # Null
    /\ hstate[this.port] = "open"

(***************************************************************************)
(* C8: if a step of connect() fails after the transition to connecting     *)
(* (handle request, open, reader setup, writer setup), connect() runs the  *)
(* full cleanup, ends with status 'error' holding no handle, reader or     *)
(* writer, and rethrows; it never ends in 'connected'.                     *)
(***************************************************************************)
C8_FailedConnectCleansUpAndThrows ==
    [][\A t \in Calls :
         (call[t].kind = "connect" /\ call'[t] # call[t]
            /\ (call[t].pc \in {"request", "open"} \/ call[t].ret = "fail"))
         => \/ /\ call[t].pc = "request"
               /\ call'[t].pc = "open"
               /\ hstate'[t] = "opening"
            \/ /\ call[t].pc = "open"
               /\ Finished(t, "connect") /\ returned'.result = "returned"
               /\ hstate'[t] = "open"
               /\ status' = [status |-> "connected", src |-> "connect", call |-> t]
            \/ /\ call'[t].pc \in CleanupPcs
               /\ call'[t].ret = "fail"
            \/ /\ Finished(t, "connect") /\ returned'.result = "threw"
               /\ status' = [status |-> "error", src |-> "connect", call |-> t]
               /\ ~Holds'
               /\ ~this'.isConnected]_vars

\* A connect() whose port.open() failed has ended: cleaned up, in 'error',
\* having thrown.
C8_Witness ==
    /\ returned.kind = "connect" /\ returned.result = "threw"
    /\ status = [status |-> "error", src |-> "connect", call |-> returned.call]
    /\ hstate[returned.call] = "acquired"
    /\ closeCalls[returned.call] > 0
    /\ ~Holds

(***************************************************************************)
(* C9: every error raised by a read in the read loop, other than an        *)
(* abort/network-class error during an intentional disconnect, ends the    *)
(* loop and is surfaced as the error state ('error' notified, isConnected  *)
(* false).                                                                 *)
(***************************************************************************)
NetworkClass == {"NetworkError", "AbortError"}

\* The read pending in loop l rejects in this step.
ReadRejects(l) ==
    /\ loop[l].pc = "reading"
    /\ loop'[l].pc = "ended"
    /\ loop'[l].outcome \in {"swallowed", "threw"}

C9_ReadErrorSurfaced ==
    [][\A l \in Calls :
         ( /\ ReadRejects(l)
           /\ ~( /\ rstate'[loop[l].r] \in NetworkClass
                 /\ \E u \in Calls : InFlight(u, "disconnect") ) )
         => /\ status' = [status |-> "error", src |-> "readLoop", call |-> l]
            /\ ~this'.isConnected]_vars

(***************************************************************************)
(* C10: an abort/network-class read error that occurs while a disconnect   *)
(* is in progress is swallowed: the read loop ends without rethrowing, no  *)
(* 'error' is notified, and the disconnect ends with 'disconnected'.       *)
(***************************************************************************)
C10_TeardownReadErrorSwallowed ==
    [][/\ \A l \in Calls :
            ( /\ ReadRejects(l)
              /\ rstate'[loop[l].r] \in NetworkClass
              /\ this.isDisconnecting )
            => /\ loop'[l].outcome = "swallowed"
               /\ status' = status
               /\ this' = this
       /\ \A t \in Calls :
            (call[t].kind = "disconnect" /\ call'[t].kind = "done")
            => status' = Disconnected(t)]_vars

\* A read loop has swallowed a network-class error during a disconnect.
C10_Witness ==
    \E l \in Calls :
        /\ loop[l].outcome = "swallowed"
        /\ loop[l].midDisconnect
        /\ rstate[loop[l].r] \in NetworkClass

(***************************************************************************)
(* C11: write() is rejected with an error to its caller whenever the       *)
(* connection is not in the connected state or a disconnect is in          *)
(* progress; the rejected write sends nothing to the device, changes no    *)
(* lifecycle state and emits no notification.                              *)
(***************************************************************************)
C11_WriteRejectedUnlessConnected ==
    [][\A t \in Calls :
         ( /\ Started(t, "write")
           /\ ~this.isConnected \/ \E u \in Calls : InFlight(u, "disconnect") )
         => /\ Finished(t, "write") /\ returned'.result = "threw"
            /\ UNCHANGED <<this, status>>
            /\ PlatformUnchanged]_vars

(***************************************************************************)
(* C12 as stated: connect() with the transport capability absent raises    *)
(* the transport-unsupported error, makes no state change (no transition,  *)
(* isConnected and the references unchanged) and requests no handle.       *)
(***************************************************************************)
C12_UnsupportedConnectChangesNothing ==
    [][\A t \in Calls :
         (Started(t, "connect") /\ ~serialSupported)
         => /\ Finished(t, "connect") /\ returned'.result = "threw"
            /\ UNCHANGED <<this, status>>
            /\ PlatformUnchanged]_vars

(***************************************************************************)
(* C12 as amended: connect() with the transport capability absent raises   *)
(* the transport-unsupported error at once and notifies 'error' (the       *)
(* lifecycle moves to the error state); isConnected and the handle, reader *)
(* and writer references are unchanged and no handle is requested.         *)
(***************************************************************************)
C12_UnsupportedConnectNotifiesError ==
    [][\A t \in Calls :
         (Started(t, "connect") /\ ~serialSupported)
         => /\ Finished(t, "connect") /\ returned'.result = "threw"
            /\ status' = [status |-> "error", src |-> "connect", call |-> t]
            /\ this' = this
            /\ PlatformUnchanged]_vars

\* A connect() without the transport has thrown and left 'error' behind.
C12_Witness ==
    /\ ~serialSupported
    /\ returned.kind = "connect" /\ returned.result = "threw"
    /\ status = [status |-> "error", src |-> "connect", call |-> returned.call]
    /\ this = NewSerialReader
    /\ \A h \in Ids : hstate[h] = "free"

(***************************************************************************)
(* C13: connect() called while the state is connected is a no-op: no       *)
(* handle is requested, the handle, reader, writer and buffer are          *)
(* unchanged and no notification is emitted.                               *)
(***************************************************************************)
C13_ConnectWhileConnectedIsNoOp ==
    [][\A t \in Calls :
         (Started(t, "connect") /\ this.isConnected)
         => /\ Finished(t, "connect") /\ returned'.result = "returned"
            /\ UNCHANGED <<this, status>>
            /\ PlatformUnchanged]_vars

\* A connect() made on a connected SerialReader has returned.
C13_Witness ==
    /\ returned.kind = "connect" /\ returned.result = "returned"
    /\ status.status = "connected" /\ status.call < returned.call
    /\ this.isConnected /\ ~this.isDisconnecting
    /\ this.port = status.call
    /\ call[status.call].kind = "done"
    /\ Quiescent

(***************************************************************************)
(* C14: connect() called while a disconnect is in flight returns without   *)
(* effect: it requests no handle, starts no cleanup and emits no           *)
(* notification.                                                           *)
(***************************************************************************)
C14_ConnectDuringDisconnectIsNoOp ==
    [][\A t \in Calls :
         (Started(t, "connect") /\ \E u \in Calls : InFlight(u, "disconnect"))
         => /\ call'[t].kind = "done"
            /\ UNCHANGED <<this, status>>
            /\ PlatformUnchanged]_vars

(***************************************************************************)
(* Vocabulary of the framer's properties.                                  *)
(***************************************************************************)
\* The text that arrives in this step.
Arriving == SubSeq(stream'.arrived, Len(stream.arrived) + 1, Len(stream'.arrived))

\* The records a text completes: the parts before each separator, trimmed,
\* the blank ones left out.
Completed(text) ==
    LET parts == split(text)
    IN SelectSeq([i \in 1..(Len(parts) - 1) |-> trim(parts[i])],
                 LAMBDA r : r # <<>>)

IsPrefix(s, t) == Len(s) <= Len(t) /\ SubSeq(t, 1, Len(s)) = s

\* The records occupy disjoint stretches of the text, one after the other.
RECURSIVE InOrder(_, _)
InOrder(records, text) ==
    \/ records = <<>>
    \/ \E i \in 1..Len(text) :
          LET r == Head(records) IN
          /\ i + Len(r) - 1 <= Len(text)
          /\ SubSeq(text, i, i + Len(r) - 1) = r
          /\ InOrder(Tail(records), SubSeq(text, i + Len(r), Len(text)))

(***************************************************************************)
(* C15 as stated: for every text and every way of splitting it into        *)
(* consecutive chunks, feeding the chunks one by one dispatches the same   *)
(* sequence of records as feeding the whole text in a single call.         *)
(***************************************************************************)
C15_ChunkBoundaryIndependence ==
    dispatched = processData(<<>>, stream.arrived).records

(***************************************************************************)
(* C15 as amended: for every text and every way of splitting it into       *)
(* chunks in which no call discards the buffer for exceeding the cap,      *)
(* feeding the chunks one by one dispatches the same sequence of records   *)
(* as feeding the whole text in a single call.                             *)
(***************************************************************************)
C15_ChunkIndependentUnlessDiscarded ==
    ~stream.discarded => dispatched = processData(<<>>, stream.arrived).records

\* A text with two records has arrived in several chunks, one of them
\* continuing what the buffer held, and nothing was discarded.
C15_Witness ==
    /\ stream.pending = <<>> /\ ~stream.discarded
    /\ stream.chunks >= 3 /\ stream.carried
    /\ Len(dispatched) = 2 /\ dispatched[1] # dispatched[2]
    /\ dispatched = processData(<<>>, stream.arrived).records

(***************************************************************************)
(* C16: when a feed call makes the buffer exceed the cap the buffer is     *)
(* discarded, but every record completed by a separator in that call has   *)
(* been dispatched to the data callback and is not lost.                   *)
(***************************************************************************)
C16_DiscardKeepsCompletedRecords ==
    [][(stream' # stream /\ stream'.lastDiscarded)
       => /\ this'.buffer = <<>>
          /\ dispatched' = dispatched \o Completed(this.buffer \o Arriving)]_vars

\* The last call dispatched a record and then discarded the buffer.
C16_Witness ==
    /\ stream.lastDiscarded /\ stream.lastRecords >= 1
    /\ this.buffer = <<>>
    /\ Len(dispatched) >= stream.lastRecords

(***************************************************************************)
(* C17: records are dispatched strictly in the order in which their bytes  *)
(* arrived, across successive chunks and left to right within one chunk:   *)
(* each call appends its records to those dispatched before, and the       *)
(* dispatched records lie one after the other in the text, none twice.     *)
(***************************************************************************)
C17_RecordsInArrivalOrder ==
    [][/\ IsPrefix(dispatched, dispatched')
       /\ InOrder(dispatched', stream'.arrived)
       /\ (stream' # stream) =>
             dispatched' = dispatched \o Completed(this.buffer \o Arriving)]_vars

\* One call has dispatched two different records, left to right, the first
\* of them begun in the chunk before.
C17_Witness ==
    /\ stream.chunks >= 2 /\ stream.carried
    /\ stream.lastRecords = 2 /\ Len(dispatched) = 2
    /\ dispatched[1] # dispatched[2]
    /\ dispatched = Completed(stream.arrived)

(***************************************************************************)
(* Vocabulary of the parser's properties.                                  *)
(***************************************************************************)
\* The lines of the record that match a pattern, in the order of the record.
LinesOf(pattern) == SelectSeq(monitor.rawData, LAMBDA line : line.kind = pattern)

\* The voltages the individual-cells section gives for a cell number.
SectionVoltages(number) ==
    {parseFloat(LinesOf("cell")[i].voltage) :
        i \in {j \in 1..Len(LinesOf("cell")) :
                  parseInt(LinesOf("cell")[j].number) = number}}

Cells == monitor.data.cells

(***************************************************************************)
(* C18: for every record, whatever the order of its pin lines and modules, *)
(* the cells of the Reading returned by parse are ordered by ascending     *)
(* cell number.                                                            *)
(***************************************************************************)
C18_CellsAscendingByNumber ==
    monitor.parsed =>
        \A i \in 1..(Len(Cells) - 1) : Cells[i].number <= Cells[i + 1].number

\* A record whose pin line of cell 2 comes before that of cell 1 was parsed.
C18_Witness ==
    /\ monitor.parsed
    /\ Len(LinesOf("pin")) = 2
    /\ LinesOf("pin")[1].cell = "2" /\ LinesOf("pin")[2].cell = "1"
    /\ Len(Cells) = 2
    /\ Cells[1].number = 1 /\ Cells[2].number = 2

(***************************************************************************)
(* C19: for every record, the Reading returned by parse contains at most   *)
(* one Cell per cell number, also when two pin lines name the same cell    *)
(* number.                                                                 *)
(***************************************************************************)
C19_OneCellPerNumber ==
    monitor.parsed =>
        \A i, j \in 1..Len(Cells) : Cells[i].number = Cells[j].number => i = j

(***************************************************************************)
(* C20: when the individual-cells section of a record has at least one     *)
(* entry, the differential fallback is never used: every cell whose number *)
(* appears in the section gets the section's voltage as individualVoltage  *)
(* and the status classified from that voltage, and every cell whose       *)
(* number does not appear gets individualVoltage 0 and status 'danger'.    *)
(***************************************************************************)
C20_SectionVoltagesUsed ==
    (monitor.parsed /\ LinesOf("cell") # <<>>) =>
        \A i \in 1..Len(Cells) :
            IF SectionVoltages(Cells[i].number) # {}
            THEN \E v \in SectionVoltages(Cells[i].number) :
                    /\ Cells[i].individualVoltage = v
                    /\ Cells[i].status = getCellStatus(v)
            ELSE /\ Cells[i].individualVoltage = 0
                 /\ Cells[i].status = "danger"

\* A record with a section entry for cell 1 only was parsed: cell 1 carries
\* the section's voltage, not its cumulative one, and cell 2, whose
\* differential voltage is not 0, carries 0 and 'danger'.
C20_Witness ==
    /\ monitor.parsed
    /\ Len(LinesOf("cell")) = 1 /\ LinesOf("cell")[1].number = "1"
    /\ Len(Cells) = 2
    /\ Cells[1].number = 1 /\ Cells[2].number = 2
    /\ Cells[1].individualVoltage = parseFloat(LinesOf("cell")[1].voltage)
    /\ Cells[1].individualVoltage # Cells[1].voltage
    /\ Cells[2].voltage # Cells[1].voltage
    /\ Cells[2].individualVoltage = 0 /\ Cells[2].status = "danger"

(***************************************************************************)
(* C21: when a record has no individual-cells entry, the first cell in     *)
(* ascending number order gets its cumulative voltage as individualVoltage *)
(* and every later cell its cumulative voltage minus that of the cell      *)
(* immediately before it in that order; the status of each cell is the     *)
(* classification of the resulting individual voltage.                     *)
(***************************************************************************)
C21_DifferentialFallback ==
    (monitor.parsed /\ LinesOf("cell") = <<>>) =>
        \A i \in 1..Len(Cells) :
            /\ i > 1 => Cells[i - 1].number <= Cells[i].number
            /\ Cells[i].individualVoltage =
                  IF i = 1 THEN Cells[i].voltage
                  ELSE Cells[i].voltage - Cells[i - 1].voltage
            /\ Cells[i].status = getCellStatus(Cells[i].individualVoltage)

\* A record without section, its pin line of cell 2 (7.92 V) before that of
\* cell 1 (3.96 V), was parsed: cell 2 carries the difference.
C21_Witness ==
    /\ monitor.parsed /\ monitor.rawData # <<>>
    /\ LinesOf("cell") = <<>>
    /\ Len(LinesOf("pin")) = 2
    /\ LinesOf("pin")[1].cell = "2" /\ LinesOf("pin")[1].voltage = "7.92"
    /\ LinesOf("pin")[2].cell = "1" /\ LinesOf("pin")[2].voltage = "3.96"
    /\ Len(Cells) = 2
    /\ Cells[2].number = 2 /\ Cells[2].voltage = 792
    /\ Cells[2].individualVoltage = 396 /\ Cells[2].status = "good"

(***************************************************************************)
(* C22: getCellStatus is a total classification on the absolute value a of *)
(* the voltage: a < 0.1 gives 'danger', 3.0 <= a <= 4.3 'good', a > 4.3 or *)
(* 0.1 < a < 2.5 'warning', every other value (a = 0.1, 2.5 <= a < 3.0)    *)
(* 'good'; 3.96 is 'good', 0.05 'danger', 2.0 and 4.5 'warning', and v and *)
(* -v classify alike.                                                      *)
(***************************************************************************)
Abs(v) == IF v < 0 THEN 0 - v ELSE v

C22_ClassificationTotal ==
    (monitor.parsed /\ monitor.rawData = <<>> /\ Len(Cells) = 1) =>
        LET v == Cells[1].individualVoltage
            a == Abs(v)
            st == Cells[1].status
        IN /\ st \in {"danger", "good", "warning"}
           /\ a < 10 => st = "danger"
           /\ (a >= 300 /\ a <= 430) => st = "good"
           /\ (a > 430 \/ (a > 10 /\ a < 250)) => st = "warning"
           /\ (a = 10 \/ (a >= 250 /\ a < 300)) => st = "good"
           /\ v = 396 => st = "good"
           /\ v = 5 => st = "danger"
           /\ v \in {200, 450} => st = "warning"
           /\ getCellStatus(0 - v) = st

\* A cell of -4.5 V was classified 'warning'.
C22_Witness ==
    /\ monitor.parsed /\ monitor.rawData = <<>> /\ Len(Cells) = 1
    /\ Cells[1].individualVoltage = 0 - 450
    /\ Cells[1].status = "warning"

(***************************************************************************)
(* C23: malformed or partial records are silently dropped by the consumer: *)
(* when handleData receives a record in which no line matches the record   *)
(* grammar, lastReading and readingCount are left unchanged and the UI and *)
(* the chart are not updated.                                              *)
(***************************************************************************)
NoLineMatches ==
    /\ monitor.rawData # <<>>
    /\ \A i \in 1..Len(monitor.rawData) :
          monitor.rawData[i].kind \in {"other", "blank"}

C23_MalformedRecordDropped ==
    (monitor.parsed /\ NoLineMatches) =>
        /\ monitor.lastReading = <<>>
        /\ monitor.readingCount = 0
        /\ monitor.uiUpdates = 0
        /\ monitor.chartUpdates = 0

(***************************************************************************)
(* C27: when the individual-cells section of a record contains several     *)
(* lines for the same cell number, the last such line wins: the cell's     *)
(* individualVoltage and status come from the latest duplicate.            *)
(***************************************************************************)
\* The last line of the individual-cells section for a cell number.
LastSectionLine(number) ==
    LET section == LinesOf("cell")
        k == CHOOSE i \in 1..Len(section) :
                 /\ parseInt(section[i].number) = number
                 /\ \A j \in (i + 1)..Len(section) :
                        parseInt(section[j].number) # number
    IN section[k]

C27_LastDuplicateWins ==
    monitor.parsed =>
        \A i \in 1..Len(Cells) :
            SectionVoltages(Cells[i].number) # {} =>
                LET v == parseFloat(LastSectionLine(Cells[i].number).voltage) IN
                /\ Cells[i].individualVoltage = v
                /\ Cells[i].status = getCellStatus(v)

(***************************************************************************)
(* C28: each pin line is attributed to the most recently opened module and *)
(* contributes one Pin to that module and one Cell to the Reading; a pin   *)
(* line before the first module header contributes neither; the modules    *)
(* appear in header order, the last open one included, and the number of   *)
(* cells equals the total number of pins over all modules.                 *)
(***************************************************************************)
\* The record cut at its module headers: the lines before the first header,
\* then the lines that follow each header.
RECURSIVE SectionsFrom(_, _)
SectionsFrom(lines, acc) ==
    IF lines = <<>> THEN acc
    ELSE IF Head(lines).kind = "module"
    THEN SectionsFrom(Tail(lines), Append(acc, <<>>))
    ELSE SectionsFrom(Tail(lines),
                      [acc EXCEPT ![Len(acc)] = Append(@, Head(lines))])

PinLinesAfterHeader(k) ==
    SelectSeq(SectionsFrom(monitor.rawData, << <<>> >>)[k + 1],
              LAMBDA line : line.kind = "pin")

Modules == monitor.data.modules

C28_PinsAttributedToOpenModule ==
    monitor.parsed =>
        /\ Len(Modules) = Len(LinesOf("module"))
        /\ \A k \in 1..Len(Modules) :
              /\ Modules[k].id = parseInt(LinesOf("module")[k].id)
              /\ Len(Modules[k].pins) = Len(PinLinesAfterHeader(k))
              /\ \A i \in 1..Len(Modules[k].pins) :
                    /\ Modules[k].pins[i].cellNumber =
                          parseInt(PinLinesAfterHeader(k)[i].cell)
                    /\ Modules[k].pins[i].voltage =
                          parseFloat(PinLinesAfterHeader(k)[i].voltage)
                    /\ \E c \in 1..Len(Cells) :
                          /\ Cells[c].module = Modules[k].id
                          /\ Cells[c].number = Modules[k].pins[i].cellNumber
                          /\ Cells[c].voltage = Modules[k].pins[i].voltage
        /\ Len(Cells) =
              Cardinality({ki \in (1..Len(Modules)) \X (1..MaxLines) :
                              ki[2] <= Len(Modules[ki[1]].pins)})

\* A record with a pin line before the first header, a module with one pin
\* and a last module without pins was parsed.
C28_Witness ==
    /\ monitor.parsed
    /\ Len(monitor.rawData) = 4
    /\ monitor.rawData[1].kind = "pin" /\ monitor.rawData[2].kind = "module"
    /\ monitor.rawData[3].kind = "pin" /\ monitor.rawData[4].kind = "module"
    /\ monitor.rawData[2].id # monitor.rawData[4].id
    /\ Len(Modules) = 2
    /\ Len(Modules[1].pins) = 1 /\ Len(Modules[2].pins) = 0
    /\ Len(Cells) = 1 /\ Cells[1].module = Modules[1].id

(***************************************************************************)
(* C24: within one cleanup the release steps are attempted in a fixed      *)
(* order: reader cancel, writer close, the pipe adapters, handle close;    *)
(* the references and the buffer are cleared only after the handle close   *)
(* has been attempted; and the handle is never closed while the cancel of  *)
(* its reader or the close of its writer has not been attempted.           *)
(***************************************************************************)
\* port.close() is invoked on handle h in this step.
CloseInvoked(h) == closeCalls'[h] = closeCalls[h] + 1

\* A cleanup clears the references in this step.
CleanupEnds(t) ==
    /\ call'[t] # call[t]
    /\ call'[t].pc \notin CleanupPcs
    /\ call[t].pc \in CleanupPcs \/ this'.port # this.port

C24_ReleaseStepsInOrder ==
    [][/\ \A t \in Calls :
            /\ (call[t].pc \in CleanupPcs /\ call'[t].pc \in CleanupPcs
                  /\ call'[t] # call[t])
               => StepOf(call'[t].pc) > StepOf(call[t].pc)
            /\ (CleanupEnds(t) /\ this.port # Null /\ this'.port = Null)
               => call[t].pc = "cl_close"
       /\ \A h \in Ids :
            CloseInvoked(h)
            => /\ rlock[h] # Null => rstate[rlock[h]] # "active"
               /\ wlock[h] # Null => wstate[wlock[h]] # "open"]_vars

(***************************************************************************)
(* C25: self-healing reconnect: when connect() is called while a prior     *)
(* handle exists but the reader is not marked connected, the full cleanup  *)
(* of the prior handle, reader and writer completes before the state moves *)
(* to connecting and before a new handle is requested.                     *)
(***************************************************************************)
Connecting(t) == [status |-> "connecting", src |-> "connect", call |-> t]

C25_CleanupBeforeReconnect ==
    [][\A t \in Calls :
         /\ ( /\ Started(t, "connect")
              /\ serialSupported /\ ~this.isDisconnecting
              /\ this.port # Null /\ ~this.isConnected )
            => /\ call'[t].pc \in CleanupPcs
               /\ status' = status
               /\ hstate'[t] = "free"
         /\ ( /\ call[t].kind = "connect" /\ call[t].ret = "pre"
              /\ call[t].pc \in CleanupPcs /\ call'[t] # call[t] )
            => \/ /\ call'[t].pc \in CleanupPcs
                  /\ status' = status
                  /\ hstate'[t] = "free"
               \/ /\ call'[t].pc = "request"
                  /\ status' = Connecting(t)
                  /\ call[t].pc = "cl_close" /\ closeCalls[call[t].arg] >= 1
                  /\ ~Holds'
                  /\ this'.readableStreamClosed = Null
                  /\ this'.buffer = <<>>
                  /\ hstate'[t] = "free"]_vars

(***************************************************************************)
(* C26: a graceful end-of-stream (read returns done) ends the read loop    *)
(* without error: no 'error' status notification is emitted, nothing is    *)
(* raised, and the loop issues no further read.                            *)
(***************************************************************************)
ReadReturnsDone(l) ==
    /\ Reading(l)
    /\ loop'[l].pc = "ended"
    /\ rstate'[loop[l].r] \in {"cancelled", "closed"}

C26_GracefulEndOfStream ==
    [][\A l \in Ids :
         /\ ReadReturnsDone(l)
            => /\ status' = status
               /\ this' = this
               /\ loop'[l].outcome = "done"
         /\ loop[l].pc = "ended" => loop'[l] = loop[l]]_vars

\* The device closed the stream of a connected session and its loop ended.
C26_Witness ==
    \E l \in Ids :
        /\ loop[l].pc = "ended" /\ loop[l].outcome = "done"
        /\ rstate[loop[l].r] = "closed"
        /\ status = [status |-> "connected", src |-> "connect", call |-> l]
        /\ this.reader = loop[l].r

(***************************************************************************)
(* C29: overflow check point: whenever the buffer's length after appending *)
(* a chunk exceeds the cap, the buffer is empty when the feed call         *)
(* returns, even if the appended text contained separators (the records    *)
(* split out in that call are still dispatched).                           *)
(***************************************************************************)
Appended == this.buffer \o Arriving

\* The part of a text after its last separator.
LastPart(text) == split(text)[Len(split(text))]

C29_EmptyWhenAppendedExceedsCap ==
    [][/\ Len(Appended) > BufferCap => this'.buffer = <<>>
       /\ dispatched' = dispatched \o Completed(Appended)]_vars

\* As the code has it: the cap is tested on the part left after the last
\* separator, once the records before it have been dispatched; a part within
\* the cap is kept however long the appended buffer was.
C29_EmptyWhenLastPartExceedsCap ==
    [][/\ Len(LastPart(Appended)) > BufferCap => this'.buffer = <<>>
       /\ Len(LastPart(Appended)) <= BufferCap
          => this'.buffer = LastPart(Appended)
       /\ dispatched' = dispatched \o Completed(Appended)]_vars

\* A call dispatched a record and then discarded the part after the last
\* separator.
C29_Witness ==
    /\ stream.lastRecords >= 1
    /\ stream.lastDiscarded
    /\ this.buffer = <<>>
    /\ dispatched # <<>>

(***************************************************************************)
(* C30: after every feed call, for any sequence of chunks of any sizes,    *)
(* the retained buffer is at most the cap long and contains no complete    *)
(* separator.                                                              *)
(***************************************************************************)
HasSeparator(text) ==
    \E i \in 1..Len(text) :
        i + SepLen - 1 <= Len(text) /\ SubSeq(text, i, i + SepLen - 1) = separator

C30_BufferWithinCapNoSeparator ==
    /\ Len(this.buffer) <= BufferCap
    /\ ~HasSeparator(this.buffer)

\* After an earlier discard, a later call retains a buffer as long as the cap
\* that ends with the beginning of a separator.
C30_Witness ==
    /\ stream.chunks >= 2
    /\ stream.discarded /\ ~stream.lastDiscarded
    /\ Len(this.buffer) = BufferCap
    /\ this.buffer[BufferCap] = separator[1]

(***************************************************************************)
(* C31: the framer buffer is empty after every full cleanup, so across any *)
(* sequence of sessions no record dispatched in a session contains         *)
(* characters received during an earlier session: every session begins     *)
(* with an empty buffer, and every record is cut from the buffer and the    *)
(* chunks appended to it.                                                  *)
(***************************************************************************)
SessionBegins(t) ==
    /\ status' # status
    /\ status' = [status |-> "connected", src |-> "connect", call |-> t]

C31_BufferEmptyBetweenSessions ==
    [][\A t \in Calls :
         /\ CleanupEnds(t) => this'.buffer = <<>>
         /\ SessionBegins(t) => this'.buffer = <<>>]_vars

(***************************************************************************)
(* C32: the chart keeps a rolling window: after any sequence of            *)
(* updateCells, addDataPoint, clear and setMaxDataPoints calls, the number *)
(* of time labels and the number of points of every dataset are at most    *)
(* the current maxDataPoints.                                              *)
(***************************************************************************)
Chart == monitor.chartManager

C32_RollingWindow ==
    /\ Len(Chart.labels) <= Chart.maxDataPoints
    /\ \A i \in 1..Len(Chart.datasets) :
          Len(Chart.datasets[i].data) <= Chart.maxDataPoints

(***************************************************************************)
(* C35: the time labels shown by the chart are always the ChartManager's   *)
(* own label list: after every operation chart.data.labels and             *)
(* ChartManager.labels hold the same sequence, so labels pushed after a    *)
(* clear() are visible to the chart.                                       *)
(***************************************************************************)
C35_ChartShowsManagerLabels == Chart.chartLabels = Chart.labels

(***************************************************************************)
(* C36: chart series stay aligned with the time axis: every dataset has    *)
(* exactly as many points as there are labels, so point i of every dataset *)
(* belongs to label i.  The property is about sequences of updateCells     *)
(* calls: it is required of the states only such calls have led to.        *)
(***************************************************************************)
C36_SeriesAlignedWithLabels ==
    monitor.chartOps \subseteq {"updateCells"} =>
        \A i \in 1..Len(Chart.datasets) :
            Len(Chart.datasets[i].data) = Len(Chart.labels)

(***************************************************************************)
(* C33: whenever the SerialReader reports connected (isConnected true,     *)
(* last notified status 'connected'), it holds a handle, a reader and a    *)
(* writer: port, reader and writer are all non-null, in every reachable    *)
(* state, including during and just after teardown.                        *)
(***************************************************************************)
ReportsConnected == this.isConnected /\ status.status = "connected"

C33_ConnectedHoldsResources ==
    ReportsConnected =>
        this.port # Null /\ this.reader # Null /\ this.writer # Null

(***************************************************************************)
(* C34: whenever the SerialReader reports connected and no disconnect is   *)
(* in progress, its read loop is still running: the loop never terminates, *)
(* by end-of-stream or by a swallowed or surfaced error, while the         *)
(* reported state stays 'connected'.                                       *)
(***************************************************************************)
DisconnectInProgress ==
    this.isDisconnecting \/ \E u \in Calls : InFlight(u, "disconnect")

C34_ConnectedLoopRunning ==
    (ReportsConnected /\ ~DisconnectInProgress) => Reading(status.call)

\* A disconnect() is in the middle of its teardown, the reader already
\* cancelled, and the SerialReader still reports connected.
C33_Witness ==
    \E t \in Calls :
        /\ call[t].kind = "disconnect"
        /\ call[t].pc \in CleanupPcs \ {"cl_cancel"}
        /\ ReportsConnected
        /\ this.isDisconnecting
        /\ this.reader # Null /\ rstate[this.reader] = "cancelled"

(***************************************************************************)
(* C37: no cell that passes the presentation filter (individualVoltage     *)
(* above 0.1 V) carries status 'danger', on either reconciliation path;    *)
(* every cell with status 'danger' produced by parse is excluded from the  *)
(* cells grid and from the chart while remaining present in the Reading.   *)
(***************************************************************************)
InGrid(cell) == Includes(monitor.cellsGrid, cell)

InChart(cell) ==
    \E i \in 1..Len(Chart.datasets) :
        /\ Chart.datasets[i].label = cell.name
        /\ Includes(Chart.datasets[i].data, cell.individualVoltage)

InReading(i) ==
    /\ monitor.lastReading # <<>>
    /\ i <= Len(monitor.lastReading[1].cells)
    /\ monitor.lastReading[1].cells[i] = Cells[i]

C37_DangerCellsNotShown ==
    monitor.parsed =>
        \A i \in 1..Len(Cells) :
            /\ Cells[i].individualVoltage > 10 => Cells[i].status # "danger"
            /\ Cells[i].status = "danger"
               => ~InGrid(Cells[i]) /\ ~InChart(Cells[i]) /\ InReading(i)

\* With an individual-cells section: a cell the section does not list is
\* 'danger' and hidden, next to a listed cell that is shown.
C37_Witness ==
    /\ monitor.parsed
    /\ LinesOf("cell") # <<>>
    /\ \E i, j \in 1..Len(Cells) :
          /\ Cells[i].status = "danger" /\ Cells[i].individualVoltage = 0
          /\ Cells[j].individualVoltage > 10
          /\ InGrid(Cells[j]) /\ InChart(Cells[j])
          /\ ~InGrid(Cells[i])
          /\ Len(monitor.cellsGrid) < Len(Cells)

====
